---------------------------- MODULE Spec2Model ----------------------------
(***************************************************************************)
(* Model of src/model/measurement_model.py and src/model/api.py.           *)
(*                                                                         *)
(* The file holds two variants of MeasurementModel: the active class       *)
(* (lines 12-302), which sizes objects from a table of typical sizes and a *)
(* credit-card reference, and a depth-based class kept as a comment block  *)
(* (lines 326-510), which sizes objects from a depth map and a field of    *)
(* view.  The variable "variant" says which one is deployed.               *)
(*                                                                         *)
(* Numbers: a Python float is modelled bit for bit (sign, exponent and     *)
(* 53-bit significand, every operation rounded as IEEE 754 rounds it), so  *)
(* confidences, sizes and scale factors are the floats the code computes.  *)
(* The cells of a depth map are float32 values that are multiples of a     *)
(* quarter of a metre, held as integers in quarters of a metre; their      *)
(* median is held in eighths of a metre.  The strings that the code        *)
(* formats are sequences of one-character strings.                         *)
(***************************************************************************)
EXTENDS Integers, Sequences, FiniteSets, TLC

VARIABLES variant, model, glpn, promotion, pc, call, ret, out

vars == <<variant, model, glpn, promotion, pc, call, ret, out>>

-----------------------------------------------------------------------------
(* Bounds *)

MaxDet == 2

-----------------------------------------------------------------------------
(* Generic helpers *)

Reverse(s) == [ i \in 1..Len(s) |-> s[Len(s) + 1 - i] ]

Min(a, b) == IF a < b THEN a ELSE b

Max(a, b) == IF a > b THEN a ELSE b

SeqsUpTo(S, n) == UNION { [1..k -> S] : k \in 0..n }

Ok(v) == [raised |-> FALSE, value |-> v, detail |-> ""]

Raise(d) == [raised |-> TRUE, value |-> <<>>, detail |-> d]

-----------------------------------------------------------------------------
(* Python's float: an IEEE 754 binary64 number.  A float is its sign, its  *)
(* exponent and its 53-bit significand; the significand is held            *)
(* left-aligned in 56 bits, as four limbs of 14 bits, most significant     *)
(* first: the value is m * 2^(exp - 55) with 2^55 <= m < 2^56 and m a      *)
(* multiple of 8, or zero.  Every operation rounds its exact result to the *)
(* nearest float, ties to the even significand, as the hardware does.      *)
(* Subnormal numbers, infinities and NaN do not occur: the magnitudes of   *)
(* the program are sizes in pixels, metres and confidences.                *)

Float(neg, exp, m3, m2, m1, m0) == [neg |-> neg, exp |-> exp, m |-> <<m3, m2, m1, m0>>]

FZero(neg) == Float(neg, 0, 0, 0, 0, 0)

IsZero(x) == x.m[1] = 0

\* The number of bits of n >= 0
RECURSIVE BitLen(_)
BitLen(n) == IF n = 0 THEN 0 ELSE 1 + BitLen(n \div 2)

\* The float whose 31 leading significand bits are t, 2^30 <= t < 2^31
FromBits(neg, len, t) ==
    Float(neg, len - 1, t \div 131072, (t \div 8) % 16384, (t % 8) * 2048, 0)

FromNat(neg, a, len) == FromBits(neg, len, a * 2^(31 - len))

\* float(n) for an int n, |n| < 2^31: exact
FromInt(n) ==
    IF n = 0 THEN FZero(FALSE)
    ELSE IF n < 0 THEN FromNat(TRUE, -n, BitLen(-n))
    ELSE FromNat(FALSE, n, BitLen(n))

\* One unit in the last place more
Incremented(neg, exp, m3, m2, m1, m0) ==
    IF m0 + 8 < 16384 THEN Float(neg, exp, m3, m2, m1, m0 + 8)
    ELSE IF m1 + 1 < 16384 THEN Float(neg, exp, m3, m2, m1 + 1, 0)
    ELSE IF m2 + 1 < 16384 THEN Float(neg, exp, m3, m2 + 1, 0, 0)
    ELSE IF m3 + 1 < 16384 THEN Float(neg, exp, m3 + 1, 0, 0, 0)
    ELSE Float(neg, exp + 1, 8192, 0, 0, 0)

\* Round to nearest, ties to even: the last limb x holds three bits below
\* the last place, sticky says that something nonzero lies below x
RoundTop(neg, exp, m3, m2, m1, x, sticky) ==
    IF x % 8 > 4 \/ (x % 8 = 4 /\ (sticky \/ (x \div 8) % 2 = 1))
    THEN Incremented(neg, exp, m3, m2, m1, x - (x % 8))
    ELSE Float(neg, exp, m3, m2, m1, x - (x % 8))

\* Round a value of five limbs v4..v0, 2^68 <= v < 2^70, to a float; exp is
\* the exponent of the result when bit 69 of v is set
Round5(neg, exp, v4, v3, v2, v1, v0, sticky) ==
    IF v4 >= 8192
    THEN RoundTop(neg, exp, v4, v3, v2, v1, sticky \/ v0 # 0)
    ELSE RoundTop(neg, exp - 1,
                  2 * v4 + (v3 \div 8192),
                  ((2 * v3) % 16384) + (v2 \div 8192),
                  ((2 * v2) % 16384) + (v1 \div 8192),
                  ((2 * v1) % 16384) + (v0 \div 8192),
                  sticky \/ v0 % 8192 # 0)

\* The limbs, least significant first, of the number whose columns are cols
RECURSIVE Carry(_, _, _)
Carry(cols, k, acc) ==
    IF cols = <<>> THEN Append(acc, k)
    ELSE Carry(Tail(cols), (Head(cols) + k) \div 16384,
               Append(acc, (Head(cols) + k) % 16384))

\* The columns of the product of two significands, least significant first
Columns(a, b) ==
    << a[4] * b[4],
       a[4] * b[3] + a[3] * b[4],
       a[4] * b[2] + a[3] * b[3] + a[2] * b[4],
       a[4] * b[1] + a[3] * b[2] + a[2] * b[3] + a[1] * b[4],
       a[3] * b[1] + a[2] * b[2] + a[1] * b[3],
       a[2] * b[1] + a[1] * b[2],
       a[1] * b[1] >>

MulRound(neg, exp, p) ==
    Round5(neg, exp, p[8], p[7], p[6], p[5], p[4], p[3] # 0 \/ p[2] # 0 \/ p[1] # 0)

\* x * y
FMul(x, y) ==
    IF IsZero(x) \/ IsZero(y) THEN FZero(x.neg # y.neg)
    ELSE MulRound(x.neg # y.neg, x.exp + y.exp + 1, Carry(Columns(x.m, y.m), 0, <<>>))

\* The quotient limbs, most significant first, and last the remainder of
\* the number of the given limbs divided by d < 2^15
RECURSIVE ShortDiv(_, _, _, _)
ShortDiv(limbs, d, rem, acc) ==
    IF limbs = <<>> THEN Append(acc, rem)
    ELSE ShortDiv(Tail(limbs), d, (rem * 16384 + Head(limbs)) % d,
                  Append(acc, (rem * 16384 + Head(limbs)) \div d))

DivRound(neg, exp, q) == Round5(neg, exp, q[2], q[3], q[4], q[5], q[6], q[7] # 0)

FDivBits(x, d, j) ==
    DivRound(x.neg, x.exp + j - 14, ShortDiv(x.m \o <<0, 0>>, d * 2^j, 0, <<>>))

\* x / d for an int d, 1 <= d < 2^15
FDivInt(x, d) == IF IsZero(x) THEN x ELSE FDivBits(x, d, 15 - BitLen(d))

\* a / b for ints a and b, |a| < 2^31 and 1 <= b < 2^15; also the float of
\* the decimal literal a/b (85.60 is TrueDiv(8560, 100))
TrueDiv(a, b) == FDivInt(FromInt(a), b)

\* int(x): the integer part, for |x| < 2^31
FTrunc(x) ==
    IF IsZero(x) \/ x.exp < 0 THEN 0
    ELSE (IF x.neg THEN -1 ELSE 1)
         * ((x.m[1] * 131072 + x.m[2] * 8 + (x.m[3] \div 2048)) \div 2^(30 - x.exp))

LexLess(s, t) == \E i \in 1..4 : s[i] < t[i] /\ \A j \in 1..(i - 1) : s[j] = t[j]

\* |x| < |y|
MagLess(x, y) ==
    IF IsZero(y) THEN FALSE
    ELSE IF IsZero(x) THEN TRUE
    ELSE IF x.exp # y.exp THEN x.exp < y.exp
    ELSE LexLess(x.m, y.m)

\* x < y
FLess(x, y) ==
    IF IsZero(x) /\ IsZero(y) THEN FALSE
    ELSE IF x.neg # y.neg THEN x.neg
    ELSE IF x.neg THEN MagLess(y, x)
    ELSE MagLess(x, y)

\* x <= y
FLeq(x, y) == ~FLess(y, x)

\* x == y
FEq(x, y) == ~FLess(x, y) /\ ~FLess(y, x)

\* np.float32(x): x rounded to a significand of 24 bits
Round24(neg, exp, m3, m2, sticky) ==
    IF m2 % 16 > 8 \/ (m2 % 16 = 8 /\ (sticky \/ (m2 \div 16) % 2 = 1))
    THEN IF m2 - (m2 % 16) + 16 < 16384 THEN Float(neg, exp, m3, m2 - (m2 % 16) + 16, 0, 0)
         ELSE IF m3 + 1 < 16384 THEN Float(neg, exp, m3 + 1, 0, 0, 0)
         ELSE Float(neg, exp + 1, 8192, 0, 0, 0)
    ELSE Float(neg, exp, m3, m2 - (m2 % 16), 0, 0)

Float32(x) ==
    IF IsZero(x) THEN x
    ELSE Round24(x.neg, x.exp, x.m[1], x.m[2], x.m[3] # 0 \/ x.m[4] # 0)

-----------------------------------------------------------------------------
(* Number formatting: Python's f"{x:.1f}", f"{x:.2f}" and f"{x:.0%}" *)

\* floor(v / 2^s) for the number v of the limbs, least significant first
RECURSIVE HighPart(_, _)
HighPart(limbs, e) ==
    IF limbs = <<>> THEN 0
    ELSE (IF Head(limbs) = 0 THEN 0 ELSE Head(limbs) * 2^e) + HighPart(Tail(limbs), e + 14)

RECURSIVE Shifted(_, _)
Shifted(limbs, s) ==
    IF limbs = <<>> THEN 0
    ELSE IF s >= 14 THEN Shifted(Tail(limbs), s - 14)
    ELSE (Head(limbs) \div 2^s) + HighPart(Tail(limbs), 14 - s)

\* v % 2^s # 0
RECURSIVE StickyBelow(_, _)
StickyBelow(limbs, s) ==
    IF limbs = <<>> THEN FALSE
    ELSE IF s >= 14 THEN Head(limbs) # 0 \/ StickyBelow(Tail(limbs), s - 14)
    ELSE Head(limbs) % 2^s # 0

\* t / 2 rounded to the nearest integer, ties to the even one; sticky says
\* that the exact value lies above t
RoundedInt(t, sticky) ==
    IF t % 2 = 1 /\ (sticky \/ (t \div 2) % 2 = 1) THEN (t \div 2) + 1 ELSE t \div 2

\* v / 2^(s + 1) rounded to the nearest integer, ties to the even one
RoundHalfEven(limbs, s) == RoundedInt(Shifted(limbs, s), StickyBelow(limbs, s))

\* |x| * c as limbs, least significant first
ScaledLimbs(m, c) == Carry(<<m[4] * c, m[3] * c, m[2] * c, m[1] * c>>, 0, <<>>)

\* |x| * 10^d rounded to the nearest integer as the exact decimal expansion
\* of the float x rounds, ties to even, for |x| * 10^d < 2^30
Scaled(x, d) ==
    IF IsZero(x) THEN 0 ELSE RoundHalfEven(ScaledLimbs(x.m, 10^d), 54 - x.exp)

DigitChar(d) == <<"0", "1", "2", "3", "4", "5", "6", "7", "8", "9">>[d + 1]

RECURSIVE Digits(_)
Digits(n) == IF n < 10 THEN <<DigitChar(n)>>
             ELSE Digits(n \div 10) \o <<DigitChar(n % 10)>>

RECURSIVE FracDigits(_, _)
FracDigits(n, d) == IF d = 0 THEN <<>>
                    ELSE FracDigits(n \div 10, d - 1) \o <<DigitChar(n % 10)>>

\* The digits of scaled / 10^d, with d digits behind the point; no point
\* when d = 0
FixedDigits(scaled, d) ==
    IF d = 0 THEN Digits(scaled)
    ELSE Digits(scaled \div 10^d) \o <<".">> \o FracDigits(scaled % 10^d, d)

\* f"{x:.{d}f}" for d in 0..2; a negative x keeps its sign when it rounds
\* to zero, and so does -0.0
FormatFixed(x, d) ==
    (IF x.neg THEN <<"-">> ELSE <<>>) \o FixedDigits(Scaled(x, d), d)

\* f"{c:.0%}": c * 100 is computed as a float and printed with no decimals
FormatPercent(c) == FormatFixed(FMul(c, FromInt(100)), 0) \o <<"%">>

-----------------------------------------------------------------------------
(* Inputs of one call: the image data and what the external collaborators *)
(* (codec, detector, depth estimator, OpenCV drawing, JPEG encoder) answer *)

\* float(conf) of a float32 prediction: the float32 values nearest 0.7 and 0.9
ConfLow == Float32(TrueDiv(7, 10))

ConfHigh == Float32(TrueDiv(9, 10))

Boxes == { <<100, 100, 220, 300>>, <<300, 101, 340, 241>> }

Sizes == { <<640, 480>>, <<960, 720>>, <<300, 225>> }

\* Cells of a depth map, in quarters of a metre
DepthValues == {0, 2, 8, 48}

NoSize == <<0, 0>>

ImageData(kind, size) == [kind |-> kind, size |-> size]

Detection(c, conf, bbox) == [class |-> c, confidence |-> conf, bbox |-> bbox]

\* What the detector can report: a bottle at either box with the same
\* confidence, a bottle with the higher confidence, and a chair
Detections ==
    { Detection("bottle", ConfLow,  <<100, 100, 220, 300>>),
      Detection("bottle", ConfLow,  <<300, 101, 340, 241>>),
      Detection("bottle", ConfHigh, <<100, 100, 220, 300>>),
      Detection("chair",  ConfHigh, <<300, 101, 340, 241>>) }

\* A depth map of w columns and h rows, constant on its left and right halves.
DepthMapOf(w, h, l, r) == [w |-> w, h |-> h, left |-> l, right |-> r]

NoMap == DepthMapOf(0, 0, 0, 0)

NotAsked == [raised |-> FALSE, dets |-> <<>>, map |-> NoMap]

DetectorAnswers ==
    { [raised |-> FALSE, dets |-> d, map |-> NoMap] : d \in SeqsUpTo(Detections, MaxDet) }
    \cup { [raised |-> TRUE, dets |-> <<>>, map |-> NoMap] }

EstimatorAnswers ==
    { [raised |-> FALSE, dets |-> <<>>, map |-> DepthMapOf(640, 480, l, r)] :
        l \in DepthValues, r \in DepthValues }
    \cup { [raised |-> TRUE, dets |-> <<>>, map |-> NoMap] }

RenderFaults == {"none", "draw_measurements", "encode_image_to_base64"}

-----------------------------------------------------------------------------
(* MeasurementModel: constants set by __init__ *)

\* reference_width_mm = 85.60 and reference_height_mm = 53.98
reference_width_mm == TrueDiv(8560, 100)

reference_height_mm == TrueDiv(5398, 100)

\* Typical sizes in millimetres, ints
common_objects ==
    [ c \in {"bottle", "cell phone", "laptop", "keyboard", "mouse", "book"} |->
        CASE c = "bottle"     -> [width |-> 70,  height |-> 240]
          [] c = "cell phone" -> [width |-> 70,  height |-> 150]
          [] c = "laptop"     -> [width |-> 330, height |-> 230]
          [] c = "keyboard"   -> [width |-> 450, height |-> 150]
          [] c = "mouse"      -> [width |-> 60,  height |-> 110]
          [] c = "book"       -> [width |-> 150, height |-> 220] ]

\* The factors of lines 147 and 156: 0.9 for a class of common_objects,
\* 0.7 for any other
KnownFactor == TrueDiv(9, 10)

UnknownFactor == TrueDiv(7, 10)

\* Depth variant: np.tan(np.radians(self.HFOV_deg / 2)), where HFOV_deg is
\* np.degrees(2 * np.arctan((SENSOR_WIDTH_MM / 2) / FOCAL_LENGTH_MM)) with
\* SENSOR_WIDTH_MM = 3.6 and FOCAL_LENGTH_MM = 3.5.  The way through arctan,
\* degrees, radians and tan gives back the float (3.6 / 2) / 3.5, which is
\* 0x1.0750750750751p-1 = 0.5142857142857143
TanHalfHFOV == Float(FALSE, -1, 8426, 936, 3744, 14984)

\* np.tan(np.radians(self.VFOV_deg / 2)) with SENSOR_HEIGHT_MM = 2.7: the
\* float (2.7 / 2) / 3.5, which is 0x1.8af8af8af8af9p-2 = 0.38571428571428573
TanHalfVFOV == Float(FALSE, -2, 12639, 1404, 5617, 6088)

\* depth_correction_factor = 0.61 / 1.29, the float 0x1.e43790de4379p-2 =
\* 0.4728682170542635
depth_correction_factor == Float(FALSE, -2, 15494, 15494, 15494, 15488)

\* The working resolution of the detector and the depth estimator
WorkingWidth == 640

WorkingHeight == 480

\* object_region < 10: the validity ceiling in metres
MaxValidDepth == 10

-----------------------------------------------------------------------------
(* preprocess_image *)

\* A decoded image: its size and what has been drawn over its pixels
ImageOf(size) == [none |-> FALSE, size |-> size, overlays |-> <<>>]

\* cv2.imread answers None for a file that is no image
NoneImage == [none |-> TRUE, size |-> NoSize, overlays |-> <<>>]

preprocess_image(v, image_data) ==
    CASE image_data.kind = "data_uri"       -> Ok(ImageOf(image_data.size))
      [] image_data.kind = "bad_data_uri"   -> Raise("cannot decode image data")
      [] image_data.kind = "image_path"     -> Ok(ImageOf(image_data.size))
      [] image_data.kind = "non_image_path" ->
            IF v = "reference" THEN Ok(NoneImage)
            ELSE Raise("cannot identify image file")
      [] image_data.kind = "ndarray"        -> Ok(ImageOf(image_data.size))
      [] OTHER                              -> Raise("Unsupported image data format")

-----------------------------------------------------------------------------
(* detect_objects *)

\* int(f * n) for the float literal f = pct / 100 and an int n
IntFraction(pct, n) == FTrunc(FMul(TrueDiv(pct, 100), FromInt(n)))

SimulatedDetection(image) ==
    Detection("object", TrueDiv(95, 100),
              <<IntFraction(15, image.size[1]), IntFraction(15, image.size[2]),
                IntFraction(85, image.size[1]), IntFraction(85, image.size[2])>>)

\* A fallback that reports nothing when the model is not loaded
detect_objects_empty_fallback(v, m, image, answer) ==
    IF m = "none"
    THEN IF v = "reference" /\ image.none
         THEN Raise("'NoneType' object has no attribute 'shape'")
         ELSE Ok(<<>>)
    ELSE IF v = "reference" /\ image.none THEN Raise("cv2.error in cvtColor")
    ELSE IF answer.raised THEN Raise("detector failed")
    ELSE Ok(answer.dets)

detect_objects(v, m, image, answer) ==
    IF v = "reference"
    THEN IF m = "none"
         THEN IF image.none THEN Raise("'NoneType' object has no attribute 'shape'")
              ELSE Ok(<<SimulatedDetection(image)>>)
         ELSE IF image.none THEN Raise("cv2.error in cvtColor")
              ELSE IF answer.raised THEN Raise("detector failed")
              ELSE Ok(answer.dets)
    ELSE IF m = "none" THEN Ok(<<>>)
         ELSE IF answer.raised THEN Raise("detector failed")
         ELSE Ok(answer.dets)

-----------------------------------------------------------------------------
(* Depth variant: estimate_depth and the sampling of a box *)

\* estimate_depth: a map of ones at the image's own size when GLPN is not
\* loaded, otherwise the estimator's answer at the working resolution
estimate_depth(g, image, answer) ==
    IF g = "none"
    THEN Ok(DepthMapOf(image.size[1], image.size[2], 4, 4))
    ELSE IF answer.raised THEN Raise("depth estimator failed")
    ELSE Ok(answer.map)

\* len(range(a, b)) of a slice a:b of an axis of length n, for 0 <= a, 0 <= b
SliceLen(a, b, n) == Max(0, Min(b, n) - Min(a, n))

\* depth_map[y1:y2, x1:x2]: how many cells of the left and of the right half
object_region(depth_map, bbox) ==
    LET rows  == SliceLen(bbox[2], bbox[4], depth_map.h)
        split == depth_map.w \div 2
        lcols == SliceLen(Min(bbox[1], split), Min(bbox[3], split), depth_map.w)
        cols  == SliceLen(bbox[1], bbox[3], depth_map.w)
    IN  [nleft |-> lcols * rows, nright |-> (cols - lcols) * rows]

\* (object_region > 0) & (object_region < 10), a depth in quarters of a metre
ValidDepth(d) == d > 0 /\ d < MaxValidDepth * 4

\* The k-th smallest of kl copies of vl and kr copies of vr
Kth(vl, kl, vr, kr, k) ==
    LET lo == IF vl <= vr THEN <<vl, kl>> ELSE <<vr, kr>>
        hi == IF vl <= vr THEN <<vr, kr>> ELSE <<vl, kl>>
    IN  IF k <= lo[2] THEN lo[1] ELSE hi[1]

\* np.median of kl copies of vl and kr copies of vr, in eighths of a metre;
\* 0 when there is none
WeightedMedian(vl, kl, vr, kr) ==
    IF kl + kr = 0 THEN 0
    ELSE IF (kl + kr) % 2 = 1
         THEN 2 * Kth(vl, kl, vr, kr, (kl + kr + 1) \div 2)
         ELSE Kth(vl, kl, vr, kr, (kl + kr) \div 2)
              + Kth(vl, kl, vr, kr, (kl + kr) \div 2 + 1)

\* The median of the valid values of a region, 0 for an empty region
FilteredMedian(depth_map, reg) ==
    IF reg.nleft + reg.nright = 0 THEN 0
    ELSE WeightedMedian(depth_map.left,
                        IF ValidDepth(depth_map.left) THEN reg.nleft ELSE 0,
                        depth_map.right,
                        IF ValidDepth(depth_map.right) THEN reg.nright ELSE 0)

\* median_depth before the correction factor (lines 426-431)
median_depth(depth_map, bbox) ==
    FilteredMedian(depth_map, object_region(depth_map, bbox))

\* median_depth *= self.depth_correction_factor (line 433) for a median of m8
\* eighths of a metre.  A median of 0 is the int 0 of lines 429 and 431, and
\* the product is the float 0.0.  Any other median is a np.float32: NumPy
\* before 2.0 promotes the product with a Python float to float64, NumPy
\* from 2.0 on converts the factor to float32 and multiplies in float32.
CorrectedDepth(m8, p) ==
    IF m8 = 0 THEN FZero(FALSE)
    ELSE IF p = "weak_scalar"
         THEN Float32(FMul(FDivInt(FromInt(m8), 8), Float32(depth_correction_factor)))
         ELSE FMul(FDivInt(FromInt(m8), 8), depth_correction_factor)

-----------------------------------------------------------------------------
(* Depth variant: the rescaling of a box to the original image *)

\* int(x * scale) for the float scale: the product is rounded and then
\* truncated toward zero
ScaleCoord(x, scale) == FTrunc(FMul(FromInt(x), scale))

\* The four int(...) lines 421-424
Rescaled(bbox, scale_x, scale_y) ==
    << ScaleCoord(bbox[1], scale_x), ScaleCoord(bbox[2], scale_y),
       ScaleCoord(bbox[3], scale_x), ScaleCoord(bbox[4], scale_y) >>

RescaleWrongAxis(bbox, src, dst) ==
    Rescaled(bbox, TrueDiv(dst[1], src[1]), TrueDiv(dst[2], src[1]))

\* scale_x, scale_y = orig_w / 640, orig_h / 480 (the quotients are rounded
\* to floats) and the box scaled by them
Rescale(bbox, src, dst) ==
    Rescaled(bbox, TrueDiv(dst[1], src[1]), TrueDiv(dst[2], src[2]))

-----------------------------------------------------------------------------
(* calculate_dimensions *)

Measurement(name, dims, conf, bbox) ==
    [objectName |-> name, dimensions |-> dims, confidence |-> conf, bbox |-> bbox]

DimensionsStringAscii(width, height, d, unit) ==
    FormatFixed(width, d) \o <<"x">> \o FormatFixed(height, d) \o <<" ">> \o unit

\* f"{a:.1f}×{b:.1f} cm" and f"{a:.2f}×{b:.2f} m"
DimensionsString(width, height, d, unit) ==
    FormatFixed(width, d) \o <<"×">> \o FormatFixed(height, d) \o <<" ">> \o unit

AdjustedConfidenceFlat(conf, known) == FMul(conf, KnownFactor)

\* detection['confidence'] * 0.9 and detection['confidence'] * 0.7
AdjustedConfidence(conf, known) ==
    IF known THEN FMul(conf, KnownFactor) ELSE FMul(conf, UnknownFactor)

\* width_mm / 10 for the int width_mm of the table (lines 145 and 159)
TypicalCm(mm) == TrueDiv(mm, 10)

\* (pixels / extent) * reference_mm * 4 / 10 (lines 154 and 159)
EstimatedCm(pixels, extent, reference_mm) ==
    FDivInt(FMul(FMul(TrueDiv(pixels, extent), reference_mm), FromInt(4)), 10)

\* The record of the active class for a detection of a class that is, or is
\* not, one of common_objects
ReferenceRecord(image, detection, known) ==
    Measurement(detection.class,
                IF known
                THEN DimensionsString(TypicalCm(common_objects[detection.class].width),
                                      TypicalCm(common_objects[detection.class].height),
                                      1, <<"c", "m">>)
                ELSE DimensionsString(
                         EstimatedCm(detection.bbox[3] - detection.bbox[1],
                                     image.size[1], reference_width_mm),
                         EstimatedCm(detection.bbox[4] - detection.bbox[2],
                                     image.size[2], reference_height_mm),
                         1, <<"c", "m">>),
                AdjustedConfidence(detection.confidence, known),
                detection.bbox)

\* One pass of the loop of the active class (lines 128-170)
ReferenceMeasurement(image, detection) ==
    ReferenceRecord(image, detection, detection.class \in DOMAIN common_objects)

\* 2 * median_depth * np.tan(np.radians(fov_deg / 2)) * (pixels / extent),
\* multiplied from left to right
RealExtent(depth, tan_half_fov, pixels, extent) ==
    FMul(FMul(FMul(FromInt(2), depth), tan_half_fov), TrueDiv(pixels, extent))

\* The record of the depth variant for a rescaled box and a corrected depth
DepthRecord(image, detection, scaled, depth) ==
    Measurement(detection.class,
                DimensionsString(
                    RealExtent(depth, TanHalfHFOV, scaled[3] - scaled[1], image.size[1]),
                    RealExtent(depth, TanHalfVFOV, scaled[4] - scaled[2], image.size[2]),
                    2, <<"m">>),
                detection.confidence,
                scaled)

\* One pass of the loop of the depth variant (lines 419-448)
DepthMeasurement(image, depth_map, detection, p) ==
    DepthRecord(image, detection,
                Rescale(detection.bbox, <<WorkingWidth, WorkingHeight>>, image.size),
                CorrectedDepth(median_depth(depth_map, detection.bbox), p))

\* The loop of the depth variant over a depth map that was estimated
DepthMeasurements(image, detections, depth, p) ==
    IF depth.raised THEN depth
    ELSE Ok([ i \in 1..Len(detections) |->
                DepthMeasurement(image, depth.value, detections[i], p) ])

calculate_dimensions(v, g, p, image, detections, answer) ==
    IF v = "reference"
    THEN Ok([ i \in 1..Len(detections) |-> ReferenceMeasurement(image, detections[i]) ])
    ELSE DepthMeasurements(image, detections, estimate_depth(g, image, answer), p)

-----------------------------------------------------------------------------
(* results.sort(key=lambda x: x['confidence'], reverse=True) *)

\* Insert index i behind every index whose key is not larger: a stable step
RECURSIVE InsertStable(_, _, _)
InsertStable(sorted, i, key) ==
    IF sorted = <<>> THEN <<i>>
    ELSE IF FLeq(key[Head(sorted)], key[i])
         THEN <<Head(sorted)>> \o InsertStable(Tail(sorted), i, key)
         ELSE <<i>> \o sorted

\* A stable ascending sort of a sequence of indices by key
RECURSIVE StableAscending(_, _)
StableAscending(idx, key) ==
    IF idx = <<>> THEN <<>>
    ELSE InsertStable(StableAscending(SubSeq(idx, 1, Len(idx) - 1), key),
                      idx[Len(idx)], key)

Keys(results) == [ i \in 1..Len(results) |-> results[i].confidence ]

Identity(n) == [ i \in 1..n |-> i ]

SortOrderAscending(results) ==
    StableAscending(Identity(Len(results)), Keys(results))

SortOrderReversedTies(results) ==
    Reverse(StableAscending(Identity(Len(results)), Keys(results)))

\* list.sort with reverse=True: the list is reversed, sorted stably in
\* ascending order and reversed again.  The value is the order of the old
\* positions: SortOrder(r)[i] is the old position of the new i-th element.
SortOrder(results) ==
    Reverse(StableAscending(Reverse(Identity(Len(results))), Keys(results)))

Permute(results, order) == [ i \in 1..Len(results) |-> results[order[i]] ]

-----------------------------------------------------------------------------
(* draw_measurements and encode_image_to_base64 *)

\* f"{object_name} - {dimensions} ({confidence:.0%})"
Label(result) ==
    <<result.objectName, " ", "-", " ">> \o result.dimensions
        \o <<" ", "(">> \o FormatPercent(result.confidence) \o <<")">>

NotDrawn == [size |-> NoSize, overlays |-> <<>>]

\* cv2.rectangle and cv2.putText for every result, in order, over what the
\* picture already shows
Overlays(image, results) ==
    image.overlays \o [ i \in 1..Len(results) |->
                          [bbox |-> results[i].bbox, label |-> Label(results[i])] ]

\* What a call of draw_measurements leaves: its outcome, and the image and
\* the list it was given as they are after the call
DrawEffect(outcome, image, results) ==
    [raised |-> outcome.raised, value |-> outcome.value, detail |-> outcome.detail,
     image |-> image, results |-> results]

\* Drawing on the image itself: image_with_boxes = image, without the copy
draw_measurements_in_place(image, results, fault) ==
    IF fault = "draw_measurements"
    THEN DrawEffect(Raise("cv2.error while drawing"), image, results)
    ELSE DrawEffect(Ok([size |-> image.size, overlays |-> Overlays(image, results)]),
                    [image EXCEPT !.overlays = Overlays(image, results)], results)

\* The copy of the image with one box and one label per result, in order;
\* the image and the list passed in are only read
draw_measurements(image, results, fault) ==
    IF fault = "draw_measurements"
    THEN DrawEffect(Raise("cv2.error while drawing"), image, results)
    ELSE DrawEffect(Ok([size |-> image.size, overlays |-> Overlays(image, results)]),
                    image, results)

encode_image_to_base64(image, fault) ==
    IF fault = "encode_image_to_base64" THEN Raise("cannot write JPEG")
    ELSE Ok([prefix |-> "data:image/jpeg;base64,", jpeg |-> image])

-----------------------------------------------------------------------------
(* process_image *)

NoObjectsWithImageField ==
    [success |-> FALSE, message |-> <<"No objects detected">>, measurements |-> <<>>,
     annotatedImage |-> <<>>]

NoObjectsDetected ==
    [success |-> FALSE, message |-> <<"No objects detected">>, measurements |-> <<>>]

ErrorResultWithImageField(detail) ==
    [success |-> FALSE,
     message |-> <<"Error processing image: ", detail>>,
     measurements |-> <<>>,
     annotatedImage |-> <<>>]

ErrorResult(detail) ==
    [success |-> FALSE,
     message |-> <<"Error processing image: ", detail>>,
     measurements |-> <<>>]

SuccessResult(results, image_base64) ==
    [success |-> TRUE,
     message |-> <<"Detected ">> \o Digits(Len(results)) \o <<" objects">>,
     measurements |-> results,
     annotatedImage |-> image_base64]

\* What one call leaves behind: the value returned, whether an exception
\* left the function, and the locals of the call (the steps entered, the
\* detections, the results before the sort, the order the sort produced and
\* the annotated image; locals holds the image and the results list as they
\* are when the function is left)
Outcome(result, propagated, trace, detections, results, order, annotated, locals) ==
    [result |-> result, propagated |-> propagated, trace |-> trace,
     detections |-> detections, results |-> results, order |-> order,
     annotated |-> annotated, locals |-> locals]

\* The locals image and results of process_image
Locals(image, results) == [image |-> image, results |-> results]

\* A handler that catches ValueError only: other exceptions leave the function
ExceptValueErrorOnly(detail, trace, detections, results, order, annotated, locals) ==
    IF detail = "Unsupported image data format"
    THEN Outcome(ErrorResult(detail), FALSE, trace, detections, results, order,
                 annotated, locals)
    ELSE Outcome(ErrorResult(detail), TRUE, trace, detections, results, order,
                 annotated, locals)

\* A handler that returns the measurements computed before the failure
ExceptKeepsResults(detail, trace, detections, results, order, annotated, locals) ==
    Outcome([success |-> results # <<>>,
             message |-> <<"Error processing image: ", detail>>,
             measurements |-> results],
            FALSE, trace, detections, results, order, annotated, locals)

\* except Exception as e (lines 296-302)
Except(detail, trace, detections, results, order, annotated, locals) ==
    Outcome(ErrorResult(detail), FALSE, trace, detections, results, order, annotated,
            locals)

\* Lines 286-294: the annotated image is encoded and the result returned
Encoded(trace, detections, results, order, image, sorted, annotated, encoded) ==
    IF encoded.raised
    THEN Except(encoded.detail, trace, detections, results, order, annotated,
                Locals(image, sorted))
    ELSE Outcome(SuccessResult(sorted, encoded.value), FALSE, trace,
                 detections, results, order, annotated, Locals(image, sorted))

\* Lines 283-287: the sorted results were drawn, or drawing raised
Drawn(env, trace, detections, results, order, drawn) ==
    IF drawn.raised
    THEN Except(drawn.detail, trace, detections, results, order, NotDrawn,
                Locals(drawn.image, drawn.results))
    ELSE Encoded(trace \o <<"encode_image_to_base64">>, detections, results, order,
                 drawn.image, drawn.results, drawn.value,
                 encode_image_to_base64(drawn.value, env.render))

\* Lines 280-284: the results in the order of the sort are drawn
Sorted(env, image, trace, detections, results, order, sorted) ==
    Drawn(env, trace \o <<"sort", "draw_measurements">>, detections, results, order,
          draw_measurements(image, sorted, env.render))

\* Lines 272-281: the no-objects return, or the sort
Calculated(env, image, trace, detections, calc) ==
    IF calc.raised
    THEN Except(calc.detail, trace, detections, <<>>, <<>>, NotDrawn, Locals(image, <<>>))
    ELSE IF calc.value = <<>>
    THEN Outcome(NoObjectsDetected, FALSE, trace, detections, calc.value, <<>>, NotDrawn,
                 Locals(image, calc.value))
    ELSE Sorted(env, image, trace, detections, calc.value, SortOrder(calc.value),
                Permute(calc.value, SortOrder(calc.value)))

\* Lines 266-270: the detections are measured
Detected(v, g, p, env, image, trace, det) ==
    IF det.raised
    THEN Except(det.detail, trace, <<>>, <<>>, <<>>, NotDrawn, Locals(image, <<>>))
    ELSE Calculated(env, image, trace \o <<"calculate_dimensions">>, det.value,
                    calculate_dimensions(v, g, p, image, det.value, env.estimator))

\* Lines 263-267: the image is decoded and handed to the detector
Preprocessed(v, m, g, p, env, trace, pre) ==
    IF pre.raised
    THEN Except(pre.detail, trace, <<>>, <<>>, <<>>, NotDrawn, Locals(NoneImage, <<>>))
    ELSE Detected(v, g, p, env, pre.value, trace \o <<"detect_objects">>,
                  detect_objects(v, m, pre.value, env.detector))

process_image(v, m, g, p, env) ==
    Preprocessed(v, m, g, p, env, <<"preprocess_image">>,
                 preprocess_image(v, env.image_data))

-----------------------------------------------------------------------------
(* What the collaborators are asked during one call *)

Env(image_data, detector, estimator, render) ==
    [image_data |-> image_data, detector |-> detector,
     estimator |-> estimator, render |-> render]

\* self.model(...) runs only when the model is loaded and the image reached it
DetectorAsked(v, m, image_data) ==
    LET pre == preprocess_image(v, image_data)
    IN  IF pre.raised \/ m = "none" THEN {NotAsked}
        ELSE IF pre.value.none THEN {NotAsked}
        ELSE DetectorAnswers

\* self.glpn(...) runs only in the depth variant, when GLPN is loaded and
\* detect_objects has returned
EstimatorAsked(v, m, g, image_data, detector) ==
    LET pre == preprocess_image(v, image_data)
    IN  IF v = "reference" \/ g = "none" \/ pre.raised THEN {NotAsked}
        ELSE IF detect_objects(v, m, pre.value, detector).raised THEN {NotAsked}
        ELSE EstimatorAnswers

\* Drawing and encoding run only when there are results
RenderAskedAfter(v, g, estimator, pre, det) ==
    IF det.raised THEN {"none"}
    ELSE IF det.value = <<>> THEN {"none"}
    ELSE IF v = "depth" /\ estimate_depth(g, pre.value, estimator).raised
         THEN {"none"}
    ELSE RenderFaults

RenderAskedFor(v, m, g, detector, estimator, pre) ==
    IF pre.raised THEN {"none"}
    ELSE RenderAskedAfter(v, g, estimator, pre,
                          detect_objects(v, m, pre.value, detector))

RenderAsked(v, m, g, image_data, detector, estimator) ==
    RenderAskedFor(v, m, g, detector, estimator, preprocess_image(v, image_data))

-----------------------------------------------------------------------------
(* State *)

NoCall == Env(ImageData("none", NoSize), NotAsked, NotAsked, "none")

NoResult == [success |-> FALSE, message |-> <<>>, measurements |-> <<>>]

NoOutcome == Outcome(NoResult, FALSE, <<>>, <<>>, <<>>, <<>>, NotDrawn,
                     Locals(NoneImage, <<>>))

\* What the caller gets: through which entry, for which request body, with
\* which HTTP status (0 outside HTTP) and which body
Answer(via, request, status, body) ==
    [via |-> via, request |-> request, status |-> status, body |-> body]

NoOut == Answer("none", "none", 0, NoResult)

\* MeasurementModel.__init__: each model is loaded, or None when loading
\* failed.  promotion is how the installed NumPy types the product of a
\* np.float32 and a Python float (line 433): as float64 ("value_based",
\* NumPy before 2.0) or as float32 ("weak_scalar", NumPy from 2.0 on); the
\* active class has no such product.
Init ==
    /\ variant \in {"reference", "depth"}
    /\ model \in {"loaded", "none"}
    /\ glpn \in (IF variant = "depth" THEN {"loaded", "none"} ELSE {"absent"})
    /\ promotion \in (IF variant = "depth" THEN {"value_based", "weak_scalar"}
                      ELSE {"unused"})
    /\ pc = "idle"
    /\ call = NoCall
    /\ ret = NoOutcome
    /\ out = NoOut

\* The call returns o, which is answered through via
Respond(env, o, via, status) ==
    /\ call' = env
    /\ ret' = o
    /\ out' = Answer(via,
                     IF via = "measure" THEN "dict_with_image" ELSE "none",
                     IF o.propagated THEN 500 ELSE status,
                     IF o.propagated THEN NoResult ELSE o.result)
    /\ pc' = "returned"
    /\ UNCHANGED <<variant, model, glpn, promotion>>

\* One call of process_image on image_data, answered through via
Process(image_data, via, status) ==
    \E detector \in DetectorAsked(variant, model, image_data) :
    \E estimator \in EstimatorAsked(variant, model, glpn, image_data, detector) :
    \E render \in RenderAsked(variant, model, glpn, image_data, detector, estimator) :
        Respond(Env(image_data, detector, estimator, render),
                process_image(variant, model, glpn, promotion,
                              Env(image_data, detector, estimator, render)),
                via, status)

\* No call of process_image: the caller is answered at once
Answered(via, request, status, body) ==
    /\ call' = NoCall
    /\ ret' = NoOutcome
    /\ out' = Answer(via, request, status, body)
    /\ pc' = "returned"
    /\ UNCHANGED <<variant, model, glpn, promotion>>

\* What a string handed to process_image can be: a data URI that decodes or
\* does not, the path of a file that is an image or is not, any other string
StringImages ==
    { ImageData("data_uri", <<640, 480>>), ImageData("image_path", <<300, 225>>) }
    \cup { ImageData(k, NoSize) : k \in {"bad_data_uri", "non_image_path", "other_string"} }

\* What the image field of a JSON request can carry: a string, or a value
\* of another JSON type
JsonImages == StringImages \cup { ImageData("other_type", NoSize) }

\* What the command line can carry: sys.argv[1] is a string
ArgvImages == StringImages

\* What a caller of the class can pass besides strings
ArrayImages == { ImageData("ndarray", <<960, 720>>) }

\* What request.json can be: null, an empty container, string or zero; a
\* dict, a list or a string that holds "image" or does not; a number
Bodies ==
    {"null", "empty", "dict_with_image", "dict_without_image", "list_with_image",
     "list_without_image", "string_with_image", "string_without_image", "number"}

\* api.py measure(), lines 21-24, for a request body: the body has no image
\* (400), the field is read, or a TypeError leaves the handler: 'image' in
\* 5 raises in the guard, and a list or a string that holds "image" passes
\* the guard and raises when indexed with 'image'
Guard(body) ==
    CASE body \in {"null", "empty"} -> "no_image"
      [] body \in {"dict_without_image", "list_without_image",
                   "string_without_image"} -> "no_image"
      [] body = "dict_with_image" -> "image"
      [] body \in {"list_with_image", "string_with_image", "number"} -> "type_error"

\* api.py measure(), the request without an image
measure_no_image ==
    /\ pc = "idle"
    /\ \E body \in Bodies :
          /\ Guard(body) = "no_image"
          /\ Answered("measure", body, 400,
                      [success |-> FALSE, message |-> <<"No image data provided">>])

\* api.py measure(), the request whose body is no dict: the TypeError is not
\* handled and the server answers 500
measure_type_error ==
    /\ pc = "idle"
    /\ \E body \in Bodies :
          /\ Guard(body) = "type_error"
          /\ Answered("measure", body, 500, NoResult)

\* api.py measure(), the request with an image field
measure ==
    /\ pc = "idle"
    /\ Guard("dict_with_image") = "image"
    /\ \E image_data \in JsonImages : Process(image_data, "measure", 200)

\* api.py health()
health ==
    /\ pc = "idle"
    /\ Answered("health", "none", 200,
                [status |-> "ok", model_loaded |-> model # "none"])

\* measurement_model.py run as a script with an argument
main ==
    /\ pc = "idle"
    /\ \E image_data \in ArgvImages : Process(image_data, "__main__", 0)

\* measurement_model.py run as a script without an argument
main_no_argument ==
    /\ pc = "idle"
    /\ Answered("__main__", "none", 0,
                [message |-> <<"Please provide an image path to process">>])

\* process_image called with a pixel array
process_array ==
    /\ pc = "idle"
    /\ \E image_data \in ArrayImages : Process(image_data, "process_image", 0)

\* The call is over: nothing of it persists, the next call starts afresh
next_call ==
    /\ pc = "returned"
    /\ pc' = "idle"
    /\ call' = NoCall
    /\ ret' = NoOutcome
    /\ out' = NoOut
    /\ UNCHANGED <<variant, model, glpn, promotion>>

Next ==
    \/ measure_no_image
    \/ measure_type_error
    \/ measure
    \/ health
    \/ main
    \/ main_no_argument
    \/ process_array
    \/ next_call

Spec == Init /\ [][Next]_vars

-----------------------------------------------------------------------------
(* Properties *)

\* process_image was called and has returned
Called == pc = "returned" /\ call.image_data.kind # "none"

\* What the stages of the call did, recomputed from the call's inputs
CallPre == preprocess_image(variant, call.image_data)

CallDet == detect_objects(variant, model, CallPre.value, call.detector)

\* calculate_dimensions raised: the depth estimator is the one step of it
\* that can
CallCalcRaised ==
    variant = "depth" /\ estimate_depth(glpn, CallPre.value, call.estimator).raised

\* Some stage of the call raised an exception
StageRaised ==
    \/ CallPre.raised
    \/ CallDet.raised
    \/ CallCalcRaised
    \/ call.render # "none"

\* C1: in every returned result with measurements, the reported confidences
\* never increase from one measurement to the next.
C1_ConfidenceDescending ==
    Called =>
        \A i \in 1..(Len(ret.result.measurements) - 1) :
            FLeq(ret.result.measurements[i + 1].confidence,
                 ret.result.measurements[i].confidence)

\* A success whose measurements were computed in strictly ascending order of
\* confidence, so that the sort had to move them
C1_Witness ==
    /\ Called
    /\ ret.result.success
    /\ Len(ret.results) >= 2
    /\ FLess(ret.results[1].confidence, ret.results[2].confidence)

\* The depth the depth variant samples for a box, in eighths of a metre
SampledDepth(bbox) ==
    median_depth(estimate_depth(glpn, CallPre.value, call.estimator).value, bbox)

\* C2: in the depth variant, a detection whose sampled depth is 0 is left out
\* of the measurements: every reported measurement comes from a detection
\* whose sampled depth is not 0.
C2_ZeroDepthSkipped ==
    (Called /\ variant = "depth" /\ ret.result.success) =>
        \A j \in 1..Len(ret.result.measurements) :
            SampledDepth(ret.detections[ret.order[j]].bbox) # 0

\* C3: success holds exactly when measurements is not empty, and an error
\* result has success false and no measurements whatever was computed.
C3_SuccessIffMeasurements ==
    Called =>
        /\ ret.result.success = (Len(ret.result.measurements) > 0)
        /\ StageRaised =>
              (~ret.result.success /\ ret.result.measurements = <<>>)

\* A failure after the measurements had been computed
C3_Witness ==
    /\ Called
    /\ StageRaised
    /\ ret.results # <<>>
    /\ ~ret.result.success

\* C4: no exception leaves process_image: whenever a stage raises, the call
\* returns success false, no measurements and the message "Error processing
\* image: <detail>", which is not the message of the no-objects outcome.
C4_NeverPropagates ==
    Called =>
        /\ ~ret.propagated
        /\ out.status # 500
        /\ StageRaised =>
              /\ ~ret.result.success
              /\ ret.result.measurements = <<>>
              /\ Len(ret.result.message) = 2
              /\ ret.result.message[1] = "Error processing image: "
              /\ ret.result.message # <<"No objects detected">>

\* A detector that raises in the middle of a request
C4_Witness ==
    /\ Called
    /\ call.detector.raised
    /\ out.via = "measure"
    /\ out.body.message[1] = "Error processing image: "

\* C5: when detection and calculation complete with no detections, the
\* result is exactly success false, "No objects detected" and no
\* measurements, with no other field, and no sort, drawing or encoding runs.
C5_NoObjectsOutcome ==
    (Called /\ ~CallPre.raised /\ ~CallDet.raised /\ ~CallCalcRaised
            /\ CallDet.value = <<>>) =>
        /\ DOMAIN ret.result = {"success", "message", "measurements"}
        /\ ret.result.success = FALSE
        /\ ret.result.message = <<"No objects detected">>
        /\ ret.result.measurements = <<>>
        /\ ret.trace = <<"preprocess_image", "detect_objects", "calculate_dimensions">>

\* A loaded detector that finds nothing in a decodable image
C5_Witness ==
    /\ Called
    /\ model = "loaded"
    /\ ~CallPre.raised
    /\ ~call.detector.raised
    /\ call.detector.dets = <<>>
    /\ ~CallCalcRaised
    /\ ret.result.message = <<"No objects detected">>

\* C6: a result has the field annotatedImage exactly when success is true.
C6_AnnotatedImageIffSuccess ==
    Called => (("annotatedImage" \in DOMAIN ret.result) <=> ret.result.success)

\* The encoder fails after the annotated image was drawn
C6_Witness ==
    /\ Called
    /\ ret.annotated # NotDrawn
    /\ ~ret.result.success
    /\ "annotatedImage" \notin DOMAIN ret.result


\* The detection the j-th reported measurement was built from
SourceDetection(j) == ret.detections[ret.order[j]]

\* C7 as stated: every reported measurement has the confidence of its
\* detection, unchanged.
C7_ConfidenceUnchanged ==
    (Called /\ ret.result.success) =>
        \A j \in 1..Len(ret.result.measurements) :
            FEq(ret.result.measurements[j].confidence, SourceDetection(j).confidence)

\* The float 0.9 and the float 0.7
NineTenths == TrueDiv(9, 10)

SevenTenths == TrueDiv(7, 10)

\* C7 as amended: the depth variant reports the confidence of the detection
\* unchanged; the active class reports the float product of it and 0.9 when
\* the class is one of common_objects, and of it and 0.7 otherwise, which is
\* less than the confidence of the detection.
C7_ConfidenceByVariant ==
    (Called /\ ret.result.success) =>
        \A j \in 1..Len(ret.result.measurements) :
            IF variant = "depth"
            THEN FEq(ret.result.measurements[j].confidence, SourceDetection(j).confidence)
            ELSE /\ FEq(ret.result.measurements[j].confidence,
                        IF SourceDetection(j).class
                               \in {"bottle", "cell phone", "laptop", "keyboard",
                                    "mouse", "book"}
                        THEN FMul(SourceDetection(j).confidence, NineTenths)
                        ELSE FMul(SourceDetection(j).confidence, SevenTenths))
                 /\ FLess(ret.result.measurements[j].confidence,
                          SourceDetection(j).confidence)

\* The active class reports a known and an unknown class in one result
C7_Witness ==
    /\ Called
    /\ variant = "reference"
    /\ ret.result.success
    /\ \E i, j \in 1..Len(ret.result.measurements) :
          /\ ret.result.measurements[i].objectName = "bottle"
          /\ ret.result.measurements[j].objectName = "chair"

IsDigit(ch) == ch \in {"0", "1", "2", "3", "4", "5", "6", "7", "8", "9"}

\* s is one or more digits, a point and exactly d digits
IsFixedPoint(s, d) ==
    /\ Len(s) >= d + 2
    /\ s[Len(s) - d] = "."
    /\ \A i \in 1..Len(s) : i # Len(s) - d => IsDigit(s[i])

\* s is "<fixed>×<fixed> <unit>" with d decimals in both numbers
HasForm(s, d, unit) ==
    \E k \in 1..Len(s) :
        /\ s[k] = "×"
        /\ IsFixedPoint(SubSeq(s, 1, k - 1), d)
        /\ Len(s) > k + Len(unit) + 1
        /\ IsFixedPoint(SubSeq(s, k + 1, Len(s) - Len(unit) - 1), d)
        /\ SubSeq(s, Len(s) - Len(unit), Len(s)) = <<" ">> \o unit

\* C8 as stated: every reported dimensions string is "<w>×<h> m" with two
\* decimals in each number.
C8_TwoDecimalMetres ==
    (Called /\ ret.result.success) =>
        \A j \in 1..Len(ret.result.measurements) :
            HasForm(ret.result.measurements[j].dimensions, 2, <<"m">>)

\* C8 as amended: the depth variant reports "<w>×<h> m" with two decimals,
\* computed from the sampled depth and the field of view (a 120x200 box of a
\* 640x480 image at depth 2.0 gives "0.18×0.30 m"); the active class reports
\* "<w>×<h> cm" with one decimal (a bottle is "7.0×24.0 cm").
C8_FormByVariant ==
    (Called /\ ret.result.success) =>
        \A j \in 1..Len(ret.result.measurements) :
            LET d == SourceDetection(j)
                s == ret.result.measurements[j].dimensions
            IN  IF variant = "depth"
                THEN /\ HasForm(s, 2, <<"m">>)
                     /\ ( /\ call.image_data.size = <<640, 480>>
                          /\ d.bbox = <<100, 100, 220, 300>>
                          /\ SampledDepth(d.bbox) = 16 )
                        => s = <<"0", ".", "1", "8", "×", "0", ".", "3", "0", " ", "m">>
                ELSE /\ HasForm(s, 1, <<"c", "m">>)
                     /\ d.class = "bottle"
                        => s = <<"7", ".", "0", "×", "2", "4", ".", "0", " ", "c", "m">>

\* The depth variant measures the 120x200 box at depth 2.0
C8_Witness ==
    /\ Called
    /\ variant = "depth"
    /\ ret.result.success
    /\ call.image_data.size = <<640, 480>>
    /\ \E j \in 1..Len(ret.result.measurements) :
          /\ SourceDetection(j).bbox = <<100, 100, 220, 300>>
          /\ SampledDepth(SourceDetection(j).bbox) = 16
          /\ ret.result.measurements[j].dimensions
                = <<"0", ".", "1", "8", "×", "0", ".", "3", "0", " ", "m">>

\* The elements of s whose confidence is c, in their order
WithConfidence(s, c) ==
    LET Test(m) == FEq(m.confidence, c)
    IN  SelectSeq(s, Test)

\* C9: the sort is stable and only permutes: for every confidence, the
\* measurements reported with it are the measurements computed with it, in the
\* order in which they were computed (the order of the detections).
C9_StableSort ==
    (Called /\ ret.result.success) =>
        /\ Len(ret.result.measurements) = Len(ret.results)
        /\ \A i \in 1..Len(ret.results) :
              WithConfidence(ret.result.measurements, ret.results[i].confidence)
                  = WithConfidence(ret.results, ret.results[i].confidence)

\* Two different measurements with the same reported confidence
C9_Witness ==
    /\ Called
    /\ ret.result.success
    /\ Len(ret.results) >= 2
    /\ FEq(ret.results[1].confidence, ret.results[2].confidence)
    /\ ret.results[1] # ret.results[2]
    /\ ret.result.measurements[1] = ret.results[1]

\* Sizes and boxes for which the float product misses the exact one: 360 *
\* (112 / 640) is 62.99999999999999
RescaleSizes == Sizes \cup { <<112, 84>>, <<164, 123>>, <<1, 1>>, <<4000, 3000>> }

RescaleBoxes == Boxes \cup { <<360, 100, 400, 300>>, <<0, 0, 639, 479>> }

\* Rescaling between equal sizes changes nothing
RescaleIdentity == \A s \in RescaleSizes : \A b \in RescaleBoxes : Rescale(b, s, s) = b

\* x multiplied by the float ratio of the axis and truncated
Scaled1(x, extent, working) == FTrunc(FMul(FromInt(x), TrueDiv(extent, working)))

\* C10: rescaling between equal sizes changes nothing: the depth variant
\* reports the detector's box unchanged for an image at the working
\* resolution, and in general each coordinate multiplied by the ratio of its
\* axis and truncated.
C10_RescaleNoOp ==
    /\ RescaleIdentity
    /\ (Called /\ variant = "depth" /\ ~CallPre.raised /\ ~CallDet.raised
               /\ ~CallCalcRaised) =>
          \A i \in 1..Len(ret.results) :
              /\ ret.results[i].bbox =
                    << Scaled1(ret.detections[i].bbox[1], call.image_data.size[1], 640),
                       Scaled1(ret.detections[i].bbox[2], call.image_data.size[2], 480),
                       Scaled1(ret.detections[i].bbox[3], call.image_data.size[1], 640),
                       Scaled1(ret.detections[i].bbox[4], call.image_data.size[2], 480) >>
              /\ call.image_data.size = <<640, 480>>
                    => ret.results[i].bbox = ret.detections[i].bbox

\* A measurement of an image at the working resolution, with a box whose
\* coordinates differ on the two axes
C10_Witness ==
    /\ Called
    /\ variant = "depth"
    /\ ret.result.success
    /\ call.image_data.size = <<640, 480>>
    /\ ret.detections[1].bbox = <<300, 101, 340, 241>>
    /\ ret.result.measurements[1].bbox = <<300, 101, 340, 241>>


\* draw_measurements was called during the call
DrawCalled == \E i \in 1..Len(ret.trace) : ret.trace[i] = "draw_measurements"

\* C11: draw_measurements leaves its inputs as they were: after it ran, the
\* image of the call is the decoded image, with nothing drawn on it, the
\* results list is the sorted list it was given, and every box and label is
\* on the picture it returned.
C11_DrawLeavesInputs ==
    (Called /\ DrawCalled) =>
        /\ ret.locals.image = CallPre.value
        /\ ret.locals.image.overlays = <<>>
        /\ ret.locals.results = [ i \in 1..Len(ret.results) |-> ret.results[ret.order[i]] ]
        /\ call.render # "draw_measurements" =>
              /\ ret.annotated.size = CallPre.value.size
              /\ Len(ret.annotated.overlays) = Len(ret.locals.results)
              /\ \A i \in 1..Len(ret.annotated.overlays) :
                    ret.annotated.overlays[i].bbox = ret.locals.results[i].bbox

\* Two measurements were drawn on the returned picture
C11_Witness ==
    /\ Called
    /\ DrawCalled
    /\ ret.result.success
    /\ Len(ret.result.measurements) = 2
    /\ Len(ret.annotated.overlays) = 2
    /\ ret.locals.image.overlays = <<>>

\* The result is the error result
IsErrorResult ==
    /\ ~ret.result.success
    /\ ret.result.measurements = <<>>
    /\ Len(ret.result.message) = 2
    /\ ret.result.message[1] = "Error processing image: "

\* The float 0.95
NinetyFiveHundredths == TrueDiv(95, 100)

\* int(0.15 * n) and int(0.85 * n): the float product truncated
Percent(pct, n) == FTrunc(FMul(TrueDiv(pct, 100), FromInt(n)))

\* C12: in the active class with no detector loaded, detect_objects answers
\* one simulated detection (class "object", confidence 0.95, box from 15% to
\* 85% of each axis) for every decoded image, so a call never ends in "No
\* objects detected": it ends in a success with exactly one measurement or in
\* the error result.
C12_SimulatedDetection ==
    (Called /\ variant = "reference" /\ model = "none") =>
        /\ (~CallPre.raised /\ ~CallPre.value.none) =>
              /\ Len(ret.detections) = 1
              /\ ret.detections[1].class = "object"
              /\ FEq(ret.detections[1].confidence, NinetyFiveHundredths)
              /\ ret.detections[1].bbox =
                    << Percent(15, call.image_data.size[1]),
                       Percent(15, call.image_data.size[2]),
                       Percent(85, call.image_data.size[1]),
                       Percent(85, call.image_data.size[2]) >>
              /\ call.render = "none" => ret.result.success
        /\ ret.result.message # <<"No objects detected">>
        /\ \/ ret.result.success /\ Len(ret.result.measurements) = 1
           \/ IsErrorResult

\* The simulated detection of a 300x225 image is measured and reported
C12_Witness ==
    /\ Called
    /\ variant = "reference"
    /\ model = "none"
    /\ call.image_data.size = <<300, 225>>
    /\ ret.result.success
    /\ Len(ret.result.measurements) = 1
    /\ ret.result.measurements[1].objectName = "object"
    /\ ret.result.measurements[1].bbox = <<45, 33, 255, 191>>
    /\ FormatPercent(ret.result.measurements[1].confidence) = <<"6", "6", "%">>

=============================================================================
